---- MODULE Spec2Model ----
(***************************************************************************)
(* Model of the Nintendo DS ROM loader (nds.cpp): accept_file, which       *)
(* recognises a ROM by the CRC16 of its header, and load_file, which maps  *)
(* one of the two embedded executables (ARM9 / ARM7) into the database.    *)
(*                                                                         *)
(* 32-bit quantities (ea_t, ulong, the header's unsigned int fields) are   *)
(* kept as pairs <<hi, lo>> of 16-bit halves, so that unsigned 32-bit      *)
(* wrap-around and unsigned comparison are computed exactly.               *)
(***************************************************************************)
EXTENDS Integers, Sequences, FiniteSets

\* ------------------------------------------------------------ 32-bit words

Half == 2 ^ 16

W(hi, lo) == <<hi, lo>>

\* unsigned 32-bit addition, wrapping modulo 2^32
Add32(a, b) ==
    LET lo == a[2] + b[2]
        hi == a[1] + b[1] + (lo \div Half)
    IN  <<hi % Half, lo % Half>>

\* unsigned 32-bit comparisons
Lt32(a, b) == a[1] < b[1] \/ (a[1] = b[1] /\ a[2] < b[2])
Le32(a, b) == a = b \/ Lt32(a, b)
Ge32(a, b) == ~Lt32(a, b)

\* exact (unwrapped) test  a + b > c  on unsigned 32-bit words
SumExceeds(a, b, c) ==
    LET lo == a[2] + b[2]
        hi == a[1] + b[1] + (lo \div Half)
    IN  hi >= Half \/ Lt32(c, <<hi, lo % Half>>)

\* ea_t(-1)
BADADDR == W(65535, 65535)

\* ------------------------------------------------------------ CRC16

\* exclusive or of two bits, of two hexadecimal digits
XorBit(x, y) == (x + y) % 2
XorDigit ==
    [x \in 0 .. 15 |-> [y \in 0 .. 15 |->
        XorBit(x % 2, y % 2)
        + 2 * XorBit((x \div 2) % 2, (y \div 2) % 2)
        + 4 * XorBit((x \div 4) % 2, (y \div 4) % 2)
        + 8 * XorBit(x \div 8, y \div 8)]]

\* bitwise exclusive or (the C operator ^) of two naturals, digit by digit
RECURSIVE Xor(_, _)
Xor(a, b) ==
    IF a = 0 THEN b
    ELSE IF b = 0 THEN a
    ELSE 16 * Xor(a \div 16, b \div 16) + XorDigit[a % 16][b % 16]

\* crc16tab[] of nds.h (Rafael Vuijk's ndstool table), indexed from 1 here
crc16tab == <<
        0, 49345, 49537,   320, 49921,   960,   640, 49729,
    50689,  1728,  1920, 51009,  1280, 50625, 50305,  1088,
    52225,  3264,  3456, 52545,  3840, 53185, 52865,  3648,
     2560, 51905, 52097,  2880, 51457,  2496,  2176, 51265,
    55297,  6336,  6528, 55617,  6912, 56257, 55937,  6720,
     7680, 57025, 57217,  8000, 56577,  7616,  7296, 56385,
     5120, 54465, 54657,  5440, 55041,  6080,  5760, 54849,
    53761,  4800,  4992, 54081,  4352, 53697, 53377,  4160,
    61441, 12480, 12672, 61761, 13056, 62401, 62081, 12864,
    13824, 63169, 63361, 14144, 62721, 13760, 13440, 62529,
    15360, 64705, 64897, 15680, 65281, 16320, 16000, 65089,
    64001, 15040, 15232, 64321, 14592, 63937, 63617, 14400,
    10240, 59585, 59777, 10560, 60161, 11200, 10880, 59969,
    60929, 11968, 12160, 61249, 11520, 60865, 60545, 11328,
    58369,  9408,  9600, 58689,  9984, 59329, 59009,  9792,
     8704, 58049, 58241,  9024, 57601,  8640,  8320, 57409,
    40961, 24768, 24960, 41281, 25344, 41921, 41601, 25152,
    26112, 42689, 42881, 26432, 42241, 26048, 25728, 42049,
    27648, 44225, 44417, 27968, 44801, 28608, 28288, 44609,
    43521, 27328, 27520, 43841, 26880, 43457, 43137, 26688,
    30720, 47297, 47489, 31040, 47873, 31680, 31360, 47681,
    48641, 32448, 32640, 48961, 32000, 48577, 48257, 31808,
    46081, 29888, 30080, 46401, 30464, 47041, 46721, 30272,
    29184, 45761, 45953, 29504, 45313, 29120, 28800, 45121,
    20480, 37057, 37249, 20800, 37633, 21440, 21120, 37441,
    38401, 22208, 22400, 38721, 21760, 38337, 38017, 21568,
    39937, 23744, 23936, 40257, 24320, 40897, 40577, 24128,
    23040, 39617, 39809, 23360, 39169, 22976, 22656, 38977,
    34817, 18624, 18816, 35137, 19200, 35777, 35457, 19008,
    19968, 36545, 36737, 20288, 36097, 19904, 19584, 35905,
    17408, 33985, 34177, 17728, 34561, 18368, 18048, 34369,
    33281, 17088, 17280, 33601, 16640, 33217, 32897, 16448
>>

\* number of header bytes the checksum covers
CrcLen == 350

\* one round of the loop body: crc16 = (crc16 >> 8) ^ crc16tab[(crc16 ^ data) & 0xFF]
CrcStep(crc16, data) ==
    Xor(crc16 \div 256, crc16tab[(Xor(crc16, data) % 256) + 1])

\* iterations lo .. hi-1 of the for loop, in order, starting from register crc16
\* (the range is halved, and the register is looked at before each half, so
\* that evaluation does not nest 350 deep; crc16 is never negative)
RECURSIVE CrcLoop(_, _, _, _)
CrcLoop(buf, lo, hi, crc16) ==
    IF crc16 < 0 \/ hi <= lo THEN crc16
    ELSE IF hi = lo + 1 THEN CrcStep(crc16, buf[lo])
    ELSE CrcLoop(buf, (lo + hi) \div 2, hi,
                 CrcLoop(buf, lo, (lo + hi) \div 2, crc16))

\* (variant of CalcCRC16: the loop stops one byte early)
CalcCRC16_OneShort(buf) == CrcLoop(buf, 0, CrcLen - 1, 65535)

\* unsigned short CalcCRC16(nds_hdr *ndshdr)
CalcCRC16(buf) == CrcLoop(buf, 0, CrcLen, 65535)

\* ------------------------------------------------------------ nds.h
\* nds.h is not among the sources: the layout is that of the Nintendo DS
\* header (descriptors at 20h and 30h, headerCRC16 at 15Eh, 200h bytes) and
\* memory[] holds the block named in the specification and one more.

\* sizeof(nds_hdr)
HdrSize == 512

\* offset of the ARM9 descriptor: arm9_rom_offset, arm9_entry_address,
\* arm9_ram_address, arm9_size (four little-endian unsigned ints)
OffArm9 == 32

\* offset of the ARM7 descriptor, same layout
OffArm7 == 48

\* offset of the unsigned short headerCRC16
OffHeaderCRC16 == 350

\* little-endian unsigned int / unsigned short stored at byte offset off
U32At(buf, off) ==
    W(buf[off + 3] * 256 + buf[off + 2], buf[off + 1] * 256 + buf[off])
U16At(buf, off) == buf[off + 1] * 256 + buf[off]

\* the four fields of the descriptor stored at offset off
RomOffsetAt(buf, off) == U32At(buf, off)
EntryAt(buf, off)     == U32At(buf, off + 4)
RamAt(buf, off)       == U32At(buf, off + 8)
SizeAt(buf, off)      == U32At(buf, off + 12)

headerCRC16(buf) == U16At(buf, OffHeaderCRC16)

\* MEMARRAY memory[]: the legal RAM blocks (main RAM, shared/ARM7 work RAM)
memory == <<
    [start |-> W(512, 0),     end |-> W(575, 65535)],     \* 02000000 - 023FFFFF
    [start |-> W(895, 32768), end |-> W(896, 65535)]      \* 037F8000 - 0380FFFF
>>

\* return value of accept_file for a recognised file: 1 | ACCEPT_FIRST
ACCEPT_FIRST == 32768

\* ------------------------------------------------------------ input files

\* accept_file is called with n = 0 .. MaxN
MaxN == 1

\* filler patterns 0 .. MaxFill for the header bytes outside the modelled fields
MaxFill == 0

\* bytes of a word, least significant first
Bytes32(w) == <<w[2] % 256, w[2] \div 256, w[1] % 256, w[1] \div 256>>

RomOffsets == {W(0, 16384), W(65535, 61440)}                 \* 00004000 FFFFF000
Entries    == {W(512, 16384), BADADDR}                       \* 02004000 FFFFFFFF
RamAddrs   == {W(512, 0), W(256, 0), W(4096, 0), W(65535, 61440)}
                                    \* 02000000 01000000 10000000 FFFFF000
Sizes      == {W(0, 4096), W(768, 0)}                        \* 00001000 03000000
FileLens   == {W(0, 10), W(0, 12288), W(0, 24576), W(1024, 0)} \* 10 3000 6000 04000000

Descriptors ==
    [rom : RomOffsets, entry : Entries, ram : RamAddrs, size : Sizes]

DescBytes(d) == Bytes32(d.rom) \o Bytes32(d.entry) \o Bytes32(d.ram) \o Bytes32(d.size)

\* a header image: the two descriptors and the stored checksum at their
\* offsets, every other byte from the filler pattern
Image(d9, d7, fill, crc) ==
    [i \in 0 .. HdrSize - 1 |->
        IF i >= OffArm9 /\ i < OffArm9 + 16 THEN DescBytes(d9)[i - OffArm9 + 1]
        ELSE IF i >= OffArm7 /\ i < OffArm7 + 16 THEN DescBytes(d7)[i - OffArm7 + 1]
        ELSE IF i = OffHeaderCRC16 THEN crc % 256
        ELSE IF i = OffHeaderCRC16 + 1 THEN crc \div 256
        ELSE (i * fill) % 256]

\* the image with one bit flipped: flip = <<byte, bit>>, or <<>> for none
Damaged(img, flip) ==
    IF flip = <<>> THEN img
    ELSE [i \in 0 .. HdrSize - 1 |->
            IF i = flip[1] THEN Xor(img[i], 2 ^ flip[2]) ELSE img[i]]

\* the leading bytes of a file of length len (a file shorter than the header
\* has only len of them)
Leading(img, len) ==
    IF Lt32(len, W(0, HdrSize)) THEN [i \in 0 .. len[2] - 1 |-> img[i]] ELSE img

\* ------------------------------------------------------------ state

VARIABLES
    file,        \* the input file: its length, and what its header holds:
                 \* [len, arm9, arm7, fill, crc]
    corrupt,     \* <<byte, bit>> of a bit flipped in the file, <<>> if pristine
    hdr_read,    \* how many leading bytes of the file the global nds_hdr hdr
                 \* holds (the rest is its static zero initialisation)
    pc,          \* position in the accept_file / load_file sequence
    n,           \* accept_file's argument n
    nread,       \* what qlread returned in accept_file
    crc16,       \* what CalcCRC16(&hdr) returned in accept_file, -1 if not called
    ret,         \* accept_file's return value
    fileformatname,
    processor,   \* set_processor_type
    answer,      \* askyn_cv: 1 yes, 0 no, -1 cancel
    ARM9,
    startEA, endEA, offset,
    found_mem_block,
    inf,         \* [startIP, beginEA, start_cs]
    segs,        \* segments created by add_segm, in order
    loaded,      \* file2base calls: <<offset, startEA, endEA>>
    entry_point,
    why          \* which qexit(1) ended the load

vars == <<file, corrupt, hdr_read, pc, n, nread, crc16, ret, fileformatname, processor,
          answer, ARM9, startEA, endEA, offset, found_mem_block, inf, segs,
          loaded, entry_point, why>>

loadVars == <<answer, ARM9, startEA, endEA, offset, found_mem_block, inf, segs,
              loaded, entry_point, why>>

NoWord == W(0, 0)

\* qlread(li, buf, count) from offset 0: got bytes arrive in the buffer
ReadInto(buf, bytes, got) ==
    [i \in 0 .. HdrSize - 1 |-> IF i < got THEN bytes[i] ELSE buf[i]]

\* the first min(len, sizeof(nds_hdr)) bytes of the input file
FileBytes ==
    Leading(Damaged(Image(file.arm9, file.arm7, file.fill, file.crc), corrupt), file.len)

\* nds_hdr hdr: the contents of the global header buffer
hdr == ReadInto([i \in 0 .. HdrSize - 1 |-> 0], FileBytes, hdr_read)

\* the state before accept_file is called on the given file
Fresh(f) ==
    /\ file = f
    /\ corrupt = <<>>
    /\ hdr_read = 0
    /\ pc = "start"
    /\ n = 0
    /\ nread = 0
    /\ crc16 = -1
    /\ ret = 0
    /\ fileformatname = ""
    /\ processor = ""
    /\ answer = 1
    /\ ARM9 = FALSE
    /\ startEA = NoWord /\ endEA = NoWord /\ offset = NoWord
    /\ found_mem_block = FALSE
    /\ inf = [startIP |-> NoWord, beginEA |-> NoWord, start_cs |-> 0]
    /\ segs = <<>>
    /\ loaded = <<>>
    /\ entry_point = NoWord
    /\ why = ""

Init ==
    \E d9 \in Descriptors, d7 \in Descriptors :
        LET sum == CalcCRC16(Image(d9, d7, 0, 0))
        IN  \E len \in FileLens, stored \in {sum, Xor(sum, 1)} :
                Fresh([len |-> len, arm9 |-> d9, arm7 |-> d7, fill |-> 0, crc |-> stored])

\* ------------------------------------------------------------ accept_file

\* line 101: the file is smaller than the header
TooShort(len) == Lt32(len, W(0, HdrSize))

\* (variant of CrcMismatch: the comparison inverted)
CrcMismatch_Inverted(c, h) == c = headerCRC16(h)

\* line 113: the computed checksum differs from the stored one
CrcMismatch(c, h) == c # headerCRC16(h)

accept_file ==
    /\ pc = "start"
    /\ \E arg \in 0 .. MaxN, io \in BOOLEAN :
        /\ n' = arg
        /\ IF arg # 0
           THEN /\ ret' = 0
                /\ UNCHANGED <<hdr_read, nread, crc16, fileformatname, processor>>
           ELSE IF TooShort(file.len)
           THEN /\ ret' = 0
                /\ UNCHANGED <<hdr_read, nread, crc16, fileformatname, processor>>
           ELSE IF ~io
           THEN /\ nread' = -1
                /\ ret' = 0
                /\ UNCHANGED <<hdr_read, crc16, fileformatname, processor>>
           ELSE LET h == ReadInto(hdr, FileBytes, HdrSize)
                    c == CalcCRC16(h)
                IN  /\ hdr_read' = HdrSize
                    /\ nread' = HdrSize
                    /\ crc16' = c
                    /\ IF CrcMismatch(c, h)
                       THEN /\ ret' = 0
                            /\ UNCHANGED <<fileformatname, processor>>
                       ELSE /\ ret' = 1 + ACCEPT_FIRST
                            /\ fileformatname' = "Nintendo DS ROM"
                            /\ processor' = "ARM"
    /\ pc' = IF ret' # 0 THEN "accepted" ELSE "rejected"
    /\ UNCHANGED <<file, corrupt>>
    /\ UNCHANGED loadVars

acceptVars == <<n, nread, crc16, ret, fileformatname>>

\* ------------------------------------------------------------ load_file

\* (variant of Exit: the reason is noted but execution falls through)
Exit_FallThrough(reason) == pc' = "segm" /\ why' = reason

\* qexit(1)
Exit(reason) == pc' = "exit" /\ why' = reason

\* lines 141-166: read the header again, ask which executable to load
load_ask ==
    /\ pc = "accepted"
    /\ hdr_read' = HdrSize
    /\ \E a \in {1, 0, -1} :
        /\ answer' = a
        /\ IF a = -1
           THEN Exit("cancel")
           ELSE pc' = "select" /\ UNCHANGED why
    /\ UNCHANGED <<file, corrupt, processor, ARM9, startEA, endEA, offset,
                   found_mem_block, inf, segs, loaded, entry_point>>
    /\ UNCHANGED acceptVars

\* (variant of SelectedOff: the two executables exchanged)
SelectedOff_Swapped(a) == IF a # 0 THEN OffArm7 ELSE OffArm9

\* the descriptor the answer selects: ARM9 for "yes", ARM7 for "no"
SelectedOff(a) == IF a # 0 THEN OffArm9 ELSE OffArm7
SelectedTag(a) == IF a # 0 THEN "ARM" ELSE "ARM710A"

\* the sanity check: qlsize(li) < offset + size, in unsigned 32-bit arithmetic
Truncated(len, off, size) == Lt32(len, Add32(off, size))

\* lines 168-199: take the chosen descriptor, check it against the file length
load_select ==
    /\ pc = "select"
    /\ LET d == SelectedOff(answer)
       IN  /\ processor' = SelectedTag(answer)
           /\ inf' = [inf EXCEPT !.startIP = EntryAt(hdr, d), !.beginEA = EntryAt(hdr, d)]
           /\ startEA' = RamAt(hdr, d)
           /\ endEA' = Add32(RamAt(hdr, d), SizeAt(hdr, d))
           /\ offset' = RomOffsetAt(hdr, d)
           /\ ARM9' = (answer # 0)
           /\ IF Truncated(file.len, RomOffsetAt(hdr, d), SizeAt(hdr, d))
              THEN Exit("truncated")
              ELSE pc' = "check" /\ UNCHANGED why
    /\ UNCHANGED <<file, corrupt, hdr_read, answer, found_mem_block, segs, loaded, entry_point>>
    /\ UNCHANGED acceptVars

\* (variant of BlockTest: containment, && in place of ||)
BlockTest_And(s, e, m) == Ge32(s, m.start) /\ Le32(e, m.end)

\* the test applied to one entry of memory[]
BlockTest(s, e, m) == Ge32(s, m.start) \/ Le32(e, m.end)

\* the scan of memory[] from entry i on, stopping at the first hit
RECURSIVE FindMemBlock(_, _, _)
FindMemBlock(i, s, e) ==
    IF i > Len(memory) THEN FALSE
    ELSE IF BlockTest(s, e, memory[i]) THEN TRUE
    ELSE FindMemBlock(i + 1, s, e)

\* lines 201-217: check the window against the legal RAM blocks, map selector
load_check ==
    /\ pc = "check"
    /\ found_mem_block' = FindMemBlock(1, startEA, endEA)
    /\ IF ~found_mem_block'
       THEN Exit("illegal") /\ UNCHANGED inf
       ELSE /\ pc' = "segm"
            /\ inf' = [inf EXCEPT !.start_cs = 1]
            /\ UNCHANGED why
    /\ UNCHANGED <<file, corrupt, hdr_read, processor, answer, ARM9, startEA, endEA,
                   offset, segs, loaded, entry_point>>
    /\ UNCHANGED acceptVars

\* (variant of LastBlock: the loop ends after the first entry)
LastBlock_FirstOnly(i) == i = 1

\* line 220: entry i was the last one of memory[]
LastBlock(i) == i = Len(memory)

\* (variant of SegmFailed: the segments created so far are removed)
SegmFailed_Rollback == Exit("segm") /\ segs' = <<>>

\* lines 222-224: add_segm refused, the load ends; what exists stays
SegmFailed == Exit("segm") /\ UNCHANGED segs

\* lines 219-225: one round of the loop creating a segment per entry of
\* memory[]; add_segm may refuse
load_add_segm ==
    /\ pc = "segm"
    /\ LET i == Len(segs) + 1
       IN  \E ok \in BOOLEAN :
             IF ok
             THEN /\ segs' = Append(segs, memory[i])
                  /\ pc' = IF LastBlock(i) THEN "copy" ELSE "segm"
                  /\ UNCHANGED why
             ELSE SegmFailed
    /\ UNCHANGED <<file, corrupt, hdr_read, processor, answer, ARM9, startEA, endEA,
                   offset, found_mem_block, inf, loaded, entry_point>>
    /\ UNCHANGED acceptVars

\* lines 227-257: copy the image into the window, set the entry point
load_copy ==
    /\ pc = "copy"
    /\ loaded' = Append(loaded, <<offset, startEA, endEA>>)
    /\ LET ep == IF ARM9 THEN EntryAt(hdr, OffArm9) ELSE EntryAt(hdr, OffArm7)
       IN  /\ entry_point' = ep
           /\ inf' = IF ep # BADADDR
                     THEN [inf EXCEPT !.start_cs = 0, !.startIP = ep]
                     ELSE inf
    /\ pc' = "done"
    /\ UNCHANGED <<file, corrupt, hdr_read, processor, answer, ARM9, startEA, endEA,
                   offset, found_mem_block, segs, why>>
    /\ UNCHANGED acceptVars

Next ==
    \/ accept_file
    \/ load_ask
    \/ load_select
    \/ load_check
    \/ load_add_segm
    \/ load_copy

Spec == Init /\ [][Next]_vars

\* ------------------------------------------------------------ damaged headers

\* the header of the end-to-end scenario: ARM9 {entry 02004000, ram 02000000,
\* size 1000, rom offset 4000}; the ARM7 descriptor differs in every field
ScenarioA == [rom |-> W(0, 16384), entry |-> W(512, 16384), ram |-> W(512, 0), size |-> W(0, 4096)]
ScenarioB == [rom |-> W(65535, 61440), entry |-> BADADDR, ram |-> W(256, 0), size |-> W(768, 0)]

\* a file of 6000h bytes whose stored checksum is the computed one
InitFlip ==
    \E fill \in 0 .. MaxFill :
        LET sum == CalcCRC16(Image(ScenarioA, ScenarioB, fill, 0))
        IN  Fresh([len |-> W(0, 24576), arm9 |-> ScenarioA, arm7 |-> ScenarioB,
                   fill |-> fill, crc |-> sum])

\* one bit of the header is flipped before the file is offered to the loader
flip_bit ==
    /\ pc = "start"
    /\ corrupt = <<>>
    /\ \E i \in 0 .. HdrSize - 1, b \in 0 .. 7 :
        corrupt' = <<i, b>>
    /\ UNCHANGED <<file, hdr_read, pc, processor>>
    /\ UNCHANGED acceptVars
    /\ UNCHANGED loadVars

NextFlip ==
    \/ flip_bit
    \/ accept_file

SpecFlip == InitFlip /\ [][NextFlip]_vars
\* ------------------------------------------------------------ properties

Sniffed == pc \in {"accepted", "rejected"}

\* the load got past the choice of the executable (lines 168-199 have run)
Selected == answer # -1 /\ pc \in {"check", "segm", "copy", "done", "exit"}

\* the load got as far as the scan of memory[] (lines 201-213 have run)
Scanned ==
    \/ pc \in {"segm", "copy", "done"}
    \/ pc = "exit" /\ why \in {"illegal", "segm"}

\* the descriptor of the chosen executable, read from the file's bytes
ChosenOff == IF answer = 1 THEN OffArm9 ELSE OffArm7
ChosenRom == RomOffsetAt(FileBytes, ChosenOff)
ChosenEntry == EntryAt(FileBytes, ChosenOff)
ChosenRam == RamAt(FileBytes, ChosenOff)
ChosenSize == SizeAt(FileBytes, ChosenOff)

\* C1: accept_file returns non-zero exactly when n = 0, the file is at least
\* as long as the header, the whole header was read and the CRC16 of the raw
\* bytes [0, 350) equals the stored headerCRC16; nothing else is looked at.
C1_AcceptIffChecksum ==
    Sniffed =>
        ((ret # 0) <=>
            (/\ n = 0
             /\ ~Lt32(file.len, W(0, HdrSize))
             /\ nread = HdrSize
             /\ CalcCRC16(FileBytes) = U16At(FileBytes, OffHeaderCRC16)))

\* a file was recognised: n = 0, header read, stored checksum = computed one
C1_Witness ==
    /\ pc = "accepted" /\ ret = 1 + ACCEPT_FIRST /\ n = 0
    /\ crc16 = headerCRC16(hdr)

\* C2 (as claimed): whenever romOffset + size exceeds the file length the
\* load fails: it never completes and copies nothing, i.e. every completed
\* load has its source range inside the file.
C2_TruncatedAlwaysFails ==
    (Selected /\ SumExceeds(ChosenRom, ChosenSize, file.len)) =>
        /\ pc # "done"
        /\ loaded = <<>>

\* C3: the scan of memory[] succeeds exactly when some entry r has
\* startEA >= r.start or endEA <= r.end; a window starting at or above some
\* r.start is accepted whatever its end.
C3_LegalityIsOrTest ==
    Scanned =>
        LET hit == \E i \in DOMAIN memory :
                      \/ Ge32(startEA, memory[i].start)
                      \/ Le32(endEA, memory[i].end)
        IN  /\ found_mem_block <=> hit
            /\ hit <=> ~(pc = "exit" /\ why = "illegal")
            /\ (\E i \in DOMAIN memory : Ge32(ChosenRam, memory[i].start))
                   => ~(pc = "exit" /\ why = "illegal")

\* a load completed whose window starts inside a block and ends past the
\* end of every block
C3_Witness ==
    /\ pc = "done"
    /\ \E i \in DOMAIN memory : Ge32(startEA, memory[i].start)
    /\ \A i \in DOMAIN memory : Lt32(memory[i].end, endEA)

\* the window [s, e) has an address in common with the block m
Intersects(s, e, m) == Lt32(s, e) /\ Le32(s, m.end) /\ Lt32(m.start, e)

\* C4 (as claimed): in every load that succeeds the destination window
\* intersects at least one entry of memory[].
C4_WindowIntersectsBlock ==
    pc = "done" => \E i \in DOMAIN memory : Intersects(startEA, endEA, memory[i])

\* C5: a completed load is built from the chosen descriptor only: processor
\* tag, start = ram, end = ram + size (32 bit), offset = rom offset, and the
\* entry point is the descriptor's entry address verbatim, inside the window
\* or not; a load ends early only for cancel, truncation, an illegal window
\* or a refused segment.
C5_PlanFromChosenDescriptor ==
    /\ pc = "done" =>
        /\ answer \in {0, 1}
        /\ ARM9 <=> answer = 1
        /\ processor = (IF answer = 1 THEN "ARM" ELSE "ARM710A")
        /\ startEA = ChosenRam
        /\ endEA = Add32(ChosenRam, ChosenSize)
        /\ offset = ChosenRom
        /\ entry_point = ChosenEntry
        /\ inf.startIP = ChosenEntry
        /\ loaded = <<<<ChosenRom, ChosenRam, Add32(ChosenRam, ChosenSize)>>>>
    /\ (/\ pc = "done" /\ answer = 1
        /\ U32At(FileBytes, OffArm9) = W(0, 16384)
        /\ U32At(FileBytes, OffArm9 + 4) = W(512, 16384)
        /\ U32At(FileBytes, OffArm9 + 8) = W(512, 0)
        /\ U32At(FileBytes, OffArm9 + 12) = W(0, 4096)) =>
            /\ startEA = W(512, 0) /\ endEA = W(512, 4096)
            /\ offset = W(0, 16384) /\ inf.startIP = W(512, 16384)
    /\ pc = "exit" =>
        /\ why \in {"cancel", "truncated", "illegal", "segm"}
        /\ why = "cancel" <=> answer = -1
        /\ why = "truncated" => Lt32(file.len, Add32(ChosenRom, ChosenSize))
        /\ why = "illegal" =>
               \A i \in DOMAIN memory :
                   Lt32(ChosenRam, memory[i].start) /\ Lt32(memory[i].end, endEA)

\* the end-to-end scenario: file of 6000h bytes, ARM9 chosen, entry 02004000
\* outside the window [02000000, 02001000)
C5_Witness ==
    /\ pc = "done" /\ answer = 1 /\ file.len = W(0, 24576)
    /\ startEA = W(512, 0) /\ endEA = W(512, 4096)
    /\ offset = W(0, 16384)
    /\ inf.startIP = W(512, 16384) /\ ~Lt32(inf.startIP, endEA)

\* the checksum of the file as it was before the bit was flipped
PristineSum ==
    IF corrupt # <<>> /\ corrupt[1] = OffHeaderCRC16
        THEN Xor(headerCRC16(hdr), 2 ^ corrupt[2])
    ELSE IF corrupt # <<>> /\ corrupt[1] = OffHeaderCRC16 + 1
        THEN Xor(headerCRC16(hdr), 256 * (2 ^ corrupt[2]))
    ELSE headerCRC16(hdr)

\* C6: the checksum depends on bytes [0, 350) only, and flipping one bit of
\* those bytes changes it: a header that validated no longer does. A flip
\* outside the range leaves the checksum as it was.
C6_BitFlipChangesChecksum ==
    (Sniffed /\ nread = HdrSize) =>
        /\ corrupt = <<>> => (crc16 = headerCRC16(hdr) /\ ret # 0)
        /\ (corrupt # <<>> /\ corrupt[1] < CrcLen) =>
               (crc16 # PristineSum /\ crc16 # headerCRC16(hdr) /\ ret = 0)
        /\ (corrupt # <<>> /\ corrupt[1] >= CrcLen) => crc16 = PristineSum
        /\ (corrupt # <<>> /\ corrupt[1] >= OffHeaderCRC16 + 2) => ret # 0

\* the last checksummed byte had its top bit flipped and the file was refused
C6_Witness ==
    /\ pc = "rejected" /\ nread = HdrSize
    /\ corrupt = <<CrcLen - 1, 7>>
    /\ crc16 # headerCRC16(hdr)

\* C7: when the image is copied, every entry of memory[] has its segment,
\* the copy happens once, from the chosen range into the chosen window, and
\* the load is over: no segment is created afterwards.
C7_CopyAfterAllSegments ==
    loaded # <<>> =>
        /\ pc = "done"
        /\ segs = memory
        /\ loaded = <<<<offset, startEA, endEA>>>>

\* a load was completed with one segment per entry of memory[]
C7_Witness == pc = "done" /\ Len(loaded) = 1 /\ Len(segs) = Len(memory)

\* C8: a load ended by cancel, by the source-bounds check or by the legality
\* check has created no segment and copied nothing.
C8_NoPartialLoadOnCheckFailure ==
    why \in {"cancel", "truncated", "illegal"} =>
        /\ pc = "exit"
        /\ segs = <<>>
        /\ loaded = <<>>

\* a load was ended by the legality check
C8_Witness == pc = "exit" /\ why = "illegal" /\ ~found_mem_block

\* C9: when add_segm refuses the k-th entry the load ends at once: nothing
\* is copied, no segment is created then or later, and the k-1 segments
\* created before stay.
C9_SegmentFailureAborts ==
    [][why' = "segm" =>
          /\ pc' = "exit"
          /\ loaded' = <<>>
          /\ segs' = segs
          /\ Len(segs) < Len(memory)
          /\ segs = SubSeq(memory, 1, Len(segs))]_vars

\* the second add_segm was refused, the first segment is still there
C9_Witness == pc = "exit" /\ why = "segm" /\ segs = <<memory[1]>>

\* C10 (as claimed): a completed load has startEA <= endEA and
\* endEA - startEA equal to the size: ram + size did not wrap.
C10_WindowDoesNotWrap ==
    pc = "done" =>
        /\ Le32(startEA, endEA)
        /\ ChosenRam[1] + ChosenSize[1] + ((ChosenRam[2] + ChosenSize[2]) \div Half) < Half
====
